---- MODULE Spec2Model ----
(***************************************************************************)
(* Model of the prompt-to-video worker: the VideoJob durable object (the   *)
(* job orchestrator) and the job routes of the worker's router.            *)
(*                                                                         *)
(* A durable object is single-threaded, but its handlers are async: while  *)
(* one handler is suspended at an external HTTP call, other events (a      *)
(* request, an alarm, a state read) are delivered to the same instance.    *)
(* Each handler is therefore modelled as a sequence of atomic steps that   *)
(* end at the next external call; storage operations are synchronous.      *)
(***************************************************************************)
EXTENDS Integers, Sequences, FiniteSets, TLC

\* ------------------------------------------------------------------ bounds
NumScenes == 2
MaxStarts == 2
MaxRestarts == 1
MaxExecs == 2
MaxIds == 3
MaxTrackedScenes == 67
MaxPlanScenes == 2
MaxSceneShots == 2
MaxTokens == 3        \* refresh tokens generated
MaxAuthReqs == 2      \* auth requests in flight at once

\* ------------------------------------------------------- program constants
MAX_POLL_ATTEMPTS == 40
maxAttempts == 60

\* ------------------------------------------------------------------- state
VARIABLES
  mem,            \* this.state of the live VideoJob instance (NoState = null)
  stored,         \* the job_state row in the object's SQLite storage
  pollAttempts,   \* this.pollAttempts (instance field, not stored)
  alarmArmed,     \* an alarm is scheduled in ctx.storage
  renderId,       \* job_config 'renderId' row is present
  execs,          \* in-flight handler executions, suspended at external calls
  starts,         \* number of POST /start requests delivered so far
  restarts,       \* number of times the instance was discarded
  compileProvider,\* the owner's compile provider setting
  renderPolls,    \* checkRenderStatus replies received since the last /start
  \* --- the worker's router (KV namespace CACHE and the job objects it owns)
  kv,             \* CACHE: key -> value, 0 = no such key
  jobState,       \* status held by the VideoJob object of each job id
  jobOwner,       \* the user whose request created the job id
  genReq,         \* per user: the in-flight POST /api/projects/:id/generate
  resp,           \* the latest request and its response
  nextId,         \* ids handed out by generateId() so far
  \* --- a job of any number of scenes, followed for its progress only
  tracked,        \* this.state of that job
  \* --- the AI director (AIDirector.direct and the parser)
  raw,            \* rawDirection: the JSON the LLM returned
  target,         \* input.targetDuration, in seconds
  plan,           \* the direction returned by validate / normalize
  err,            \* the ValidationError thrown by validateDirection
  thrown,         \* the location named by the Error that direct() throws
  dpc,            \* position of direct(): llm, raw, validated, ...
  \* --- the auth routes (sessions table of the D1 database)
  sessions,       \* refresh_token_hash of each row of the sessions table
  nextToken,      \* refresh tokens generated so far
  authReqs,       \* in-flight refresh and logout requests
  authResp,       \* the latest auth response
  refreshed,      \* per token: the refresh requests presenting it answered 200
  revoked         \* tokens whose refresh or logout has been answered 200

jobVars == <<mem, stored, pollAttempts, alarmArmed, renderId, execs, starts,
             restarts, compileProvider, renderPolls>>

apiVars == <<kv, jobState, jobOwner, genReq, resp, nextId>>

dirVars == <<raw, target, plan, err, thrown, dpc>>

authVars == <<sessions, nextToken, authReqs, authResp, refreshed, revoked>>

vars == <<jobVars, apiVars, tracked, dirVars, authVars>>

Tokens == 1..MaxTokens
AuthReqIds == 1..MaxAuthReqs
NoSession == <<"none", 0>>
IdleAuthReq == [pc |-> "idle", token |-> 0, session |-> NoSession]
NoAuthResp == [op |-> "none", token |-> 0, code |-> 0, newToken |-> 0]

SceneIds == 1..NumScenes
ExecIds == 1..MaxExecs

NoState ==
  [status |-> "none", scenes |-> <<>>, finalVideoUrl |-> 0, progress |-> 0,
   error |-> ""]

JobStatus ==
  {"pending", "generating_images", "images_complete", "generating_videos",
   "videos_complete", "compiling", "complete", "failed"}

IdleExec ==
  [kind |-> "idle", pc |-> "idle", idx |-> 0, allComplete |-> TRUE,
   anyFailed |-> FALSE, attempts |-> 0]

\* error messages thrown by the services and set by the handlers
FluxError(outcome) ==
  IF outcome = "transient" THEN "Flux API error: 503" ELSE "Flux API error: 400"
KlingError == "Kling API error"
TimedOutError == "Video generation timed out"
VideosFailedError == "One or more videos failed to generate"
NoVideosError == "No videos to compile"
CreatomateError == "Creatomate API error"
RenderFailedError == "Render failed"
RenderStatusError == "Creatomate status check error"
RenderTimedOutError == "Render timed out"

\* --------------------------------------------------------- router constants
Users == {"userA", "userB"}
NoUser == "nobody"
Ids == 1..MaxIds

\* CACHE keys `user:${userId}:project:${id}`, `user:${userId}:job:${id}` and
\* `user:${userId}:project:${id}:currentJob`; ids match [\w-]+ and hold no ':'
ProjectKey(u, p) == <<"project", u, p>>
JobKey(u, j) == <<"job", u, j>>
CurrentJobKey(u, p) == <<"currentJob", u, p>>
Keys == {"project", "job", "currentJob"} \X Users \X Ids

IdleReq == [pc |-> "idle", project |-> 0, job |-> 0]
NoResp == [op |-> "none", user |-> NoUser, id |-> 0, code |-> 0, job |-> 0,
           status |-> "none"]

\* no direction / no ValidationError
NoDirection == [title |-> "", narrative |-> "", totalDuration |-> 0,
                scenes |-> <<>>]
NoError == [field |-> "", sceneId |-> 0, shotId |-> 0]
NoLocation == [scene |-> 0, shot |-> 0]

\* ------------------------------------------------------------ pure helpers
\* the steps counted by the loop of updateProgress over the first n scenes
CompletedSteps(scenes, n) ==
  Cardinality({i \in 1..n : scenes[i].startImageUrl # 0})
  + Cardinality({i \in 1..n : scenes[i].endImageUrl # 0})
  + Cardinality({i \in 1..n : scenes[i].videoUrl # 0})

\* Math.round(x) for x = num / den >= 0
MathRound(num, den) == (2 * num + den) \div (2 * den)

updateProgress(st) ==
  LET totalSteps == Len(st.scenes) * 3 + 1
      completedSteps ==
        IF st.status = "complete" THEN totalSteps
        ELSE CompletedSteps(st.scenes, Len(st.scenes))
  IN [st EXCEPT !.progress = MathRound(completedSteps * 100, totalSteps)]

loadState == IF mem # NoState THEN mem ELSE stored

SetScene(st, i, field, val) == [st EXCEPT !.scenes[i][field] = val]

Fail(st, msg) == [st EXCEPT !.status = "failed", !.error = msg]

\* lowest free execution slot
FreeSlot(e) ==
  /\ execs[e].kind = "idle"
  /\ \A f \in ExecIds : f < e => execs[f].kind # "idle"

Suspend(e, kind, pc, idx) ==
  [execs EXCEPT ![e] = [execs[e] EXCEPT !.kind = kind, !.pc = pc, !.idx = idx]]

Finish(e) == [execs EXCEPT ![e] = IdleExec]

\* ------------------------------------------------------------------- Init
Init ==
  /\ mem = NoState
  /\ stored = NoState
  /\ pollAttempts = 0
  /\ alarmArmed = FALSE
  /\ renderId = FALSE
  /\ execs = [e \in ExecIds |-> IdleExec]
  /\ starts = 0
  /\ restarts = 0
  /\ compileProvider \in {"creatomate", "none"}
  /\ renderPolls = 0
  /\ kv = [k \in Keys |-> 0]
  /\ jobState = [j \in Ids |-> "none"]
  /\ jobOwner = [j \in Ids |-> NoUser]
  /\ genReq = [u \in Users |-> IdleReq]
  /\ resp = NoResp
  /\ nextId = 0
  /\ tracked = NoState
  /\ raw = NoDirection
  /\ target = 0
  /\ plan = NoDirection
  /\ err = NoError
  /\ thrown = NoLocation
  /\ dpc = "llm"
  /\ sessions = {}
  /\ nextToken = 0
  /\ authReqs = [r \in AuthReqIds |-> IdleAuthReq]
  /\ authResp = NoAuthResp
  /\ refreshed = [t \in Tokens |-> 0]
  /\ revoked = {}

\* POST /initialize. The router initializes each freshly generated job id
\* exactly once, before it posts /start.
initialize ==
  /\ stored = NoState
  /\ mem = NoState
  /\ mem' = [status |-> "pending",
             scenes |-> [i \in SceneIds |->
                          [sceneId |-> i, status |-> "pending",
                           startImageUrl |-> 0, endImageUrl |-> 0,
                           videoRequestId |-> 0, videoUrl |-> 0,
                           error |-> ""]],
             finalVideoUrl |-> 0, progress |-> 0, error |-> ""]
  /\ stored' = mem'
  /\ UNCHANGED <<pollAttempts, alarmArmed, renderId, execs, starts, restarts, compileProvider>>
  /\ UNCHANGED <<renderPolls, apiVars, tracked, dirVars, authVars>>

\* ------------------------------------------------- startGeneration pipeline
SubmitCandidates(st, from) ==
  {j \in 1..Len(st.scenes) :
     j > from /\ st.scenes[j].startImageUrl # 0 /\ st.scenes[j].endImageUrl # 0}

Min(S) == CHOOSE x \in S : \A y \in S : x <= y

\* end of the submit loop: progress, save, reset the counter, arm the alarm
FinishSubmit(e, st) ==
  /\ mem' = updateProgress(st)
  /\ stored' = mem'
  /\ pollAttempts' = 0
  /\ alarmArmed' = TRUE
  /\ execs' = Finish(e)

\* the submit loop from the scene after `from` up to the next external call
SubmitLoop(e, st, from, saved) ==
  LET js == SubmitCandidates(st, from) IN
  IF js # {}
  THEN /\ mem' = SetScene(st, Min(js), "status", "generating_video")
       /\ stored' = saved
       /\ execs' = Suspend(e, "start", "vid_submit", Min(js))
       /\ UNCHANGED <<pollAttempts, alarmArmed>>
  ELSE FinishSubmit(e, st)

startVideoGeneration(e, st) ==
  LET st1 == [st EXCEPT !.status = "generating_videos"]
  IN SubmitLoop(e, st1, 0, st1)

\* one iteration of the image loop up to the first generateImage call
BeginScene(e, st, i) ==
  /\ mem' = updateProgress(SetScene(st, i, "status", "generating_start_image"))
  /\ stored' = mem'
  /\ execs' = Suspend(e, "start", "img_start", i)
  /\ UNCHANGED <<pollAttempts, alarmArmed>>

\* startGeneration up to the first external call
StartHandler(e) ==
  /\ FreeSlot(e)
  /\ starts' = starts + 1
  /\ IF loadState = NoState
     THEN \* throws 'Job not initialized'; fetch answers 500
          UNCHANGED <<mem, stored, execs, pollAttempts, alarmArmed>>
     ELSE BeginScene(e, [loadState EXCEPT !.status = "generating_images"], 1)
  /\ UNCHANGED <<renderId, restarts, compileProvider>>
  /\ renderPolls' = 0
  /\ UNCHANGED <<apiVars, tracked, dirVars, authVars>>

\* POST /start as the router sends it: once per job id
startGeneration(e) ==
  /\ starts = 0
  /\ StartHandler(e)

\* POST /start sent again to a job that has ended (a retry of a finished or
\* failed generation)
repeatedStart(e) ==
  /\ starts > 0
  /\ starts < MaxStarts
  /\ loadState.status \in {"complete", "failed"}
  /\ StartHandler(e)

\* fal.generateImage(scene.startPrompt) returns or throws
ImageStartReturns(e, outcome) ==
  /\ execs[e].kind = "start" /\ execs[e].pc = "img_start"
  /\ LET i == execs[e].idx IN
     IF outcome = "ok"
     THEN /\ mem' = updateProgress(
                      SetScene(SetScene(mem, i, "startImageUrl", i),
                               i, "status", "generating_end_image"))
          /\ stored' = mem'
          /\ execs' = Suspend(e, "start", "img_end", i)
     ELSE /\ mem' = Fail(mem, FluxError(outcome))
          /\ stored' = mem'
          /\ execs' = Finish(e)
  /\ UNCHANGED <<pollAttempts, alarmArmed, renderId, starts, restarts, compileProvider>>
  /\ UNCHANGED <<renderPolls, apiVars, tracked, dirVars, authVars>>

\* fal.generateImage(scene.endPrompt) returns or throws
ImageEndReturns(e, outcome) ==
  /\ execs[e].kind = "start" /\ execs[e].pc = "img_end"
  /\ LET i == execs[e].idx
         st == SetScene(mem, i, "endImageUrl", i)
     IN
     IF outcome = "ok"
     THEN IF i < NumScenes
          THEN BeginScene(e, st, i + 1)
          ELSE startVideoGeneration(e,
                 updateProgress([st EXCEPT !.status = "images_complete"]))
     ELSE /\ mem' = Fail(mem, FluxError(outcome))
          /\ stored' = mem'
          /\ execs' = Finish(e)
          /\ UNCHANGED <<pollAttempts, alarmArmed>>
  /\ UNCHANGED <<renderId, starts, restarts, compileProvider>>
  /\ UNCHANGED <<renderPolls, apiVars, tracked, dirVars, authVars>>

\* fal.submitVideoGeneration returns a request id or throws
VideoSubmitReturns(e, outcome) ==
  /\ execs[e].kind = "start" /\ execs[e].pc = "vid_submit"
  /\ LET i == execs[e].idx
         st == SetScene(SetScene(mem, i, "videoRequestId", i),
                        i, "status", "polling_video")
     IN
     IF outcome = "ok"
     THEN SubmitLoop(e, st, i, stored)
     ELSE /\ mem' = Fail(mem, KlingError)
          /\ stored' = mem'
          /\ execs' = Finish(e)
          /\ UNCHANGED <<pollAttempts, alarmArmed>>
  /\ UNCHANGED <<renderId, starts, restarts, compileProvider>>
  /\ UNCHANGED <<renderPolls, apiVars, tracked, dirVars, authVars>>

\* ------------------------------------------------------------ alarm handler
ExecAt(e, pc, idx, allC, anyF, att) ==
  [execs EXCEPT ![e] = [kind |-> "alarm", pc |-> pc, idx |-> idx,
                        allComplete |-> allC, anyFailed |-> anyF,
                        attempts |-> att]]

\* a poll loop that skips only the scenes without a request id
PollCandidatesAnyStatus(st, from) ==
  {j \in 1..Len(st.scenes) : j > from /\ st.scenes[j].videoRequestId # 0}

\* the scenes the poll loop does not skip
PollCandidates(st, from) ==
  {j \in 1..Len(st.scenes) :
     j > from /\ st.scenes[j].status = "polling_video"
              /\ st.scenes[j].videoRequestId # 0}

\* the comparator (a, b) => a.sceneId - b.sceneId
CompareScenes(a, b) == a.sceneId - b.sceneId

\* this.state.scenes.sort(...): a stable insertion sort by the comparator
RECURSIVE InsertScene(_, _)
InsertScene(sorted, s) ==
  IF sorted = <<>> THEN <<s>>
  ELSE IF CompareScenes(Head(sorted), s) <= 0
       THEN <<Head(sorted)>> \o InsertScene(Tail(sorted), s)
       ELSE <<s>> \o sorted

RECURSIVE SortScenes(_)
SortScenes(scenes) ==
  IF scenes = <<>> THEN <<>>
  ELSE InsertScene(SortScenes(SubSeq(scenes, 1, Len(scenes) - 1)),
                   scenes[Len(scenes)])

\* the video URLs handed to creatomate.compileVideo
RECURSIVE VideoUrls(_)
VideoUrls(scenes) ==
  IF scenes = <<>> THEN <<>>
  ELSE (IF Head(scenes).videoUrl # 0 THEN <<Head(scenes).videoUrl>> ELSE <<>>)
       \o VideoUrls(Tail(scenes))

\* compileVideo up to the compile submit call
compileVideo(e, st, armed) ==
  LET st1 == [st EXCEPT !.status = "compiling"]
      st2 == [st1 EXCEPT !.scenes = SortScenes(st1.scenes)]
  IN
  /\ alarmArmed' = armed
  /\ IF VideoUrls(st2.scenes) = <<>>
     THEN /\ mem' = Fail(st2, NoVideosError)
          /\ stored' = mem'
          /\ execs' = Finish(e)
     ELSE /\ mem' = st2
          /\ stored' = st1
          /\ execs' = ExecAt(e, "compile_submit", 0, TRUE, FALSE, 0)

\* the rest of alarm() after the poll loop
AfterPoll(e, st, allC, anyF, armed) ==
  LET st1 == updateProgress(st) IN
  IF anyF
  THEN /\ mem' = Fail(st1, VideosFailedError)
       /\ stored' = mem'
       /\ execs' = Finish(e)
       /\ alarmArmed' = armed
  ELSE IF allC
       THEN compileVideo(e, [st1 EXCEPT !.status = "videos_complete"], armed)
       ELSE /\ mem' = st1
            /\ stored' = st1
            /\ execs' = Finish(e)
            /\ alarmArmed' = TRUE

\* the poll loop from the scene after `from` up to the next external call
PollLoop(e, st, from, allC, anyF, armed) ==
  LET js == PollCandidates(st, from) IN
  IF js # {}
  THEN /\ mem' = st
       /\ stored' = stored
       /\ alarmArmed' = armed
       /\ execs' = ExecAt(e, "poll_status", Min(js), allC, anyF, 0)
  ELSE AfterPoll(e, st, allC, anyF, armed)

\* the alarm fires: alarm() up to the first external call
alarm(e) ==
  /\ alarmArmed
  /\ FreeSlot(e)
  /\ LET st == loadState IN
     IF st = NoState \/ st.status \in {"complete", "failed"}
     THEN /\ mem' = st
          /\ alarmArmed' = FALSE
          /\ UNCHANGED <<stored, execs, pollAttempts>>
     ELSE /\ pollAttempts' = pollAttempts + 1
          /\ IF pollAttempts + 1 > MAX_POLL_ATTEMPTS
             THEN /\ mem' = Fail(st, TimedOutError)
                  /\ stored' = mem'
                  /\ alarmArmed' = FALSE
                  /\ UNCHANGED execs
             ELSE PollLoop(e, st, 0, TRUE, FALSE, FALSE)
  /\ UNCHANGED <<renderId, starts, restarts, compileProvider>>
  /\ UNCHANGED <<renderPolls, apiVars, tracked, dirVars, authVars>>

\* a catch block that treats the poll error as permanent
AlarmCatchFails(e) ==
  /\ mem' = Fail(mem, "Poll error")
  /\ stored' = mem'
  /\ alarmArmed' = alarmArmed
  /\ execs' = Finish(e)

\* the catch block of alarm(): log the error and set the next alarm
AlarmCatch(e) ==
  /\ alarmArmed' = TRUE
  /\ execs' = Finish(e)
  /\ UNCHANGED <<mem, stored>>

\* fal.checkVideoStatus returns or throws
PollStatusReturns(e, outcome) ==
  /\ execs[e].kind = "alarm" /\ execs[e].pc = "poll_status"
  /\ LET i == execs[e].idx
         allC == execs[e].allComplete
         anyF == execs[e].anyFailed
     IN
     CASE outcome = "COMPLETED" ->
            /\ execs' = ExecAt(e, "poll_result", i, allC, anyF, 0)
            /\ UNCHANGED <<mem, stored, alarmArmed>>
       [] outcome = "FAILED" ->
            PollLoop(e, SetScene(SetScene(mem, i, "status", "failed"),
                                 i, "error", "Video generation failed"),
                     i, allC, TRUE, alarmArmed)
       [] outcome = "IN_PROGRESS" ->
            PollLoop(e, mem, i, FALSE, anyF, alarmArmed)
       [] OTHER ->  \* thrown: caught by alarm(), which re-arms
            AlarmCatch(e)
  /\ UNCHANGED <<pollAttempts, renderId, starts, restarts, compileProvider>>
  /\ UNCHANGED <<renderPolls, apiVars, tracked, dirVars, authVars>>

\* fal.getVideoResult returns or throws
PollResultReturns(e, outcome) ==
  /\ execs[e].kind = "alarm" /\ execs[e].pc = "poll_result"
  /\ LET i == execs[e].idx IN
     IF outcome = "ok"
     THEN PollLoop(e, SetScene(SetScene(mem, i, "videoUrl", i),
                               i, "status", "complete"),
                   i, execs[e].allComplete, execs[e].anyFailed, alarmArmed)
     ELSE AlarmCatch(e)
  /\ UNCHANGED <<pollAttempts, renderId, starts, restarts, compileProvider>>
  /\ UNCHANGED <<renderPolls, apiVars, tracked, dirVars, authVars>>

\* creatomate.compileVideo returns a render or throws
CompileSubmitReturns(e, outcome) ==
  /\ execs[e].kind = "alarm" /\ execs[e].pc = "compile_submit"
  /\ IF outcome = "ok"
     THEN /\ renderId' = TRUE
          /\ execs' = ExecAt(e, "render_poll", 0, TRUE, FALSE, 0)
          /\ UNCHANGED <<mem, stored>>
     ELSE /\ mem' = Fail(mem, CreatomateError)
          /\ stored' = mem'
          /\ execs' = Finish(e)
          /\ UNCHANGED renderId
  /\ UNCHANGED <<pollAttempts, alarmArmed, starts, restarts, compileProvider>>
  /\ UNCHANGED <<renderPolls, apiVars, tracked, dirVars, authVars>>

\* pollRenderCompletion: creatomate.checkRenderStatus returns or throws;
\* a pending render sleeps 30 s and polls again
RenderPollReturns(e, outcome) ==
  /\ execs[e].kind = "alarm" /\ execs[e].pc = "render_poll"
  /\ LET att == execs[e].attempts IN
     CASE outcome = "succeeded" ->
            /\ mem' = [mem EXCEPT !.finalVideoUrl = 1, !.status = "complete",
                                  !.progress = 100]
            /\ stored' = mem'
            /\ execs' = Finish(e)
       [] outcome = "failed" ->
            /\ mem' = Fail(mem, RenderFailedError)
            /\ stored' = mem'
            /\ execs' = Finish(e)
       [] outcome = "rendering" ->
            IF att + 1 < maxAttempts
            THEN /\ execs' = ExecAt(e, "render_poll", 0, TRUE, FALSE, att + 1)
                 /\ UNCHANGED <<mem, stored>>
            ELSE /\ mem' = Fail(mem, RenderTimedOutError)
                 /\ stored' = mem'
                 /\ execs' = Finish(e)
       [] OTHER ->
            /\ mem' = Fail(mem, RenderStatusError)
            /\ stored' = mem'
            /\ execs' = Finish(e)
  /\ UNCHANGED <<pollAttempts, alarmArmed, renderId, starts, restarts, compileProvider>>
  /\ renderPolls' = IF renderPolls < maxAttempts THEN renderPolls + 1
                                                   ELSE maxAttempts + 1
  /\ UNCHANGED <<apiVars, tracked, dirVars, authVars>>

\* ------------------------------------------------------- reads and restarts
\* GET /state: getState() returns loadState()
getState ==
  /\ mem' = loadState
  /\ UNCHANGED <<stored, pollAttempts, alarmArmed, renderId, execs, starts, restarts, compileProvider>>
  /\ UNCHANGED <<renderPolls, apiVars, tracked, dirVars, authVars>>

\* The instance is discarded (eviction, deploy, crash) and constructed again:
\* the fields get their initial values and in-flight handlers are lost. An
\* alarm whose handler did not run to completion is delivered again.
Restart ==
  /\ restarts < MaxRestarts
  /\ stored # NoState
  /\ restarts' = restarts + 1
  /\ mem' = NoState
  /\ pollAttempts' = 0
  /\ execs' = [e \in ExecIds |-> IdleExec]
  /\ alarmArmed' = (alarmArmed \/ \E e \in ExecIds : execs[e].kind = "alarm")
  /\ UNCHANGED <<stored, renderId, starts, compileProvider>>
  /\ UNCHANGED <<renderPolls, apiVars, tracked, dirVars, authVars>>

ImageOutcomes == {"ok", "transient", "permanent"}
CallOutcomes == {"ok", "error"}
QueueOutcomes == {"COMPLETED", "FAILED", "IN_PROGRESS", "error"}
RenderOutcomes == {"succeeded", "failed", "rendering", "error"}

Next ==
  \/ initialize
  \/ \E e \in ExecIds : startGeneration(e)
  \/ \E e \in ExecIds, o \in ImageOutcomes : ImageStartReturns(e, o)
  \/ \E e \in ExecIds, o \in ImageOutcomes : ImageEndReturns(e, o)
  \/ \E e \in ExecIds, o \in CallOutcomes : VideoSubmitReturns(e, o)
  \/ \E e \in ExecIds : alarm(e)
  \/ \E e \in ExecIds, o \in QueueOutcomes : PollStatusReturns(e, o)
  \/ \E e \in ExecIds, o \in CallOutcomes : PollResultReturns(e, o)
  \/ \E e \in ExecIds, o \in CallOutcomes : CompileSubmitReturns(e, o)
  \/ \E e \in ExecIds, o \in RenderOutcomes : RenderPollReturns(e, o)
  \/ getState
  \/ Restart

Spec == Init /\ [][Next]_vars

\* POST /start delivered again while an execution of the job is suspended at
\* an external call (a client that repeats the request)
concurrentStart(e) ==
  /\ starts > 0
  /\ starts < MaxStarts
  /\ \E f \in ExecIds : execs[f].kind # "idle"
  /\ StartHandler(e)

\* the start requests of a job and the calls they make, up to the point where
\* the first alarm is armed (the alarm chain is left to Spec)
NextConcurrent ==
  \/ initialize
  \/ \E e \in ExecIds : startGeneration(e)
  \/ \E e \in ExecIds : concurrentStart(e)
  \/ \E e \in ExecIds, o \in ImageOutcomes : ImageStartReturns(e, o)
  \/ \E e \in ExecIds, o \in ImageOutcomes : ImageEndReturns(e, o)
  \/ \E e \in ExecIds, o \in CallOutcomes : VideoSubmitReturns(e, o)

SpecConcurrent == Init /\ [][NextConcurrent]_vars

\* every provider call eventually returns and an armed alarm eventually fires;
\* nothing obliges the platform to discard the instance or a client to read
ProviderCallsReturn ==
  /\ WF_vars(\E e \in ExecIds, o \in ImageOutcomes : ImageStartReturns(e, o))
  /\ WF_vars(\E e \in ExecIds, o \in ImageOutcomes : ImageEndReturns(e, o))
  /\ WF_vars(\E e \in ExecIds, o \in CallOutcomes : VideoSubmitReturns(e, o))
  /\ WF_vars(\E e \in ExecIds, o \in QueueOutcomes : PollStatusReturns(e, o))
  /\ WF_vars(\E e \in ExecIds, o \in CallOutcomes : PollResultReturns(e, o))
  /\ WF_vars(\E e \in ExecIds, o \in CallOutcomes : CompileSubmitReturns(e, o))
  /\ WF_vars(\E e \in ExecIds, o \in RenderOutcomes : RenderPollReturns(e, o))

AlarmsFire == WF_vars(\E e \in ExecIds : alarm(e))

SpecLive == Init /\ [][Next]_vars /\ ProviderCallsReturn /\ AlarmsFire

NextRetry ==
  \/ Next
  \/ \E e \in ExecIds : repeatedStart(e)

SpecRetry == Init /\ [][NextRetry]_vars

\* ---------------------------------------------------------------- router
Respond(op, u, id, code, job, status) ==
  resp' = [op |-> op, user |-> u, id |-> id, code |-> code, job |-> job,
           status |-> status]

\* POST /api/projects by user u
CreateProject(u) ==
  /\ nextId < MaxIds
  /\ nextId' = nextId + 1
  /\ kv' = [kv EXCEPT ![ProjectKey(u, nextId + 1)] = 1]
  /\ Respond("createProject", u, nextId + 1, 201, 0, "none")
  /\ UNCHANGED <<jobState, jobOwner, genReq>>
  /\ UNCHANGED <<jobVars, tracked, dirVars, authVars>>

\* POST /api/projects/p/generate by user u, up to the /initialize call
GenerateBegin(u, p) ==
  /\ genReq[u].pc = "idle"
  /\ IF kv[ProjectKey(u, p)] = 0
     THEN /\ Respond("generate", u, p, 404, 0, "none")
          /\ UNCHANGED <<nextId, genReq, jobOwner>>
     ELSE /\ nextId < MaxIds
          /\ nextId' = nextId + 1
          /\ genReq' = [genReq EXCEPT ![u] =
                          [pc |-> "init", project |-> p, job |-> nextId + 1]]
          /\ jobOwner' = [jobOwner EXCEPT ![nextId + 1] = u]
          /\ UNCHANGED resp
  /\ UNCHANGED <<kv, jobState>>
  /\ UNCHANGED <<jobVars, tracked, dirVars, authVars>>

\* stub.fetch('/initialize') is served by the job's object
GenerateInitialize(u) ==
  /\ genReq[u].pc = "init"
  /\ jobState' = [jobState EXCEPT ![genReq[u].job] = "pending"]
  /\ genReq' = [genReq EXCEPT ![u].pc = "start"]
  /\ UNCHANGED <<kv, jobOwner, resp, nextId>>
  /\ UNCHANGED <<jobVars, tracked, dirVars, authVars>>

\* stub.fetch('/start') reaches the object: startGeneration begins
GenerateStart(u) ==
  /\ genReq[u].pc = "start"
  /\ jobState' = [jobState EXCEPT ![genReq[u].job] = "generating_images"]
  /\ genReq' = [genReq EXCEPT ![u].pc = "starting"]
  /\ UNCHANGED <<kv, jobOwner, resp, nextId>>
  /\ UNCHANGED <<jobVars, tracked, dirVars, authVars>>

\* startGeneration returns: the videos are submitted or the job has failed
GenerateStarted(u, status) ==
  /\ genReq[u].pc = "starting"
  /\ jobState' = [jobState EXCEPT ![genReq[u].job] = status]
  /\ genReq' = [genReq EXCEPT ![u].pc = "put_job"]
  /\ UNCHANGED <<kv, jobOwner, resp, nextId>>
  /\ UNCHANGED <<jobVars, tracked, dirVars, authVars>>

\* CACHE.put(`user:${userId}:job:${jobId}`)
GeneratePutJob(u) ==
  /\ genReq[u].pc = "put_job"
  /\ kv' = [kv EXCEPT ![JobKey(u, genReq[u].job)] = 1]
  /\ genReq' = [genReq EXCEPT ![u].pc = "put_current"]
  /\ UNCHANGED <<jobState, jobOwner, resp, nextId>>
  /\ UNCHANGED <<jobVars, tracked, dirVars, authVars>>

\* CACHE.put(`user:${userId}:project:${projectId}:currentJob`) and the 202
GeneratePutCurrent(u) ==
  /\ genReq[u].pc = "put_current"
  /\ kv' = [kv EXCEPT ![CurrentJobKey(u, genReq[u].project)] = genReq[u].job]
  /\ genReq' = [genReq EXCEPT ![u] = IdleReq]
  /\ Respond("generate", u, genReq[u].project, 202, genReq[u].job,
             "generating_images")
  /\ UNCHANGED <<jobState, jobOwner, nextId>>
  /\ UNCHANGED <<jobVars, tracked, dirVars, authVars>>

\* the ownership check of GET /api/jobs/:id, as the router without user keys
\* would make it
OwnsJobAnyUser(u, j) == \E v \in Users : kv[JobKey(v, j)] # 0

\* the ownership check of GET /api/jobs/:id
OwnsJob(u, j) == kv[JobKey(u, j)] # 0

\* GET /api/jobs/j by user u
GetJob(u, j) ==
  /\ IF ~OwnsJob(u, j) \/ jobState[j] = "none"
     THEN Respond("getJob", u, j, 404, 0, "none")
     ELSE Respond("getJob", u, j, 200, j, jobState[j])
  /\ UNCHANGED <<kv, jobState, jobOwner, genReq, nextId>>
  /\ UNCHANGED <<jobVars, tracked, dirVars, authVars>>

\* GET /api/projects/p/job by user u
GetProjectJob(u, p) ==
  /\ IF kv[CurrentJobKey(u, p)] = 0
     THEN Respond("getProjectJob", u, p, 404, 0, "none")
     ELSE Respond("getProjectJob", u, p, 200, kv[CurrentJobKey(u, p)],
                  jobState[kv[CurrentJobKey(u, p)]])
  /\ UNCHANGED <<kv, jobState, jobOwner, genReq, nextId>>
  /\ UNCHANGED <<jobVars, tracked, dirVars, authVars>>

\* the alarm chain of job j ends: the job is complete or failed
JobAlarm(j, status) ==
  /\ jobState[j] = "generating_videos"
  /\ jobState' = [jobState EXCEPT ![j] = status]
  /\ UNCHANGED <<kv, jobOwner, genReq, resp, nextId>>
  /\ UNCHANGED <<jobVars, tracked, dirVars, authVars>>

NextApi ==
  \/ \E u \in Users : CreateProject(u)
  \/ \E u \in Users, p \in Ids : GenerateBegin(u, p)
  \/ \E u \in Users : GenerateInitialize(u)
  \/ \E u \in Users : GenerateStart(u)
  \/ \E u \in Users, st \in {"generating_videos", "failed"} :
        GenerateStarted(u, st)
  \/ \E u \in Users : GeneratePutJob(u)
  \/ \E u \in Users : GeneratePutCurrent(u)
  \/ \E u \in Users, j \in Ids : GetJob(u, j)
  \/ \E u \in Users, p \in Ids : GetProjectJob(u, p)
  \/ \E j \in Ids, st \in {"complete", "failed"} : JobAlarm(j, st)

SpecApi == Init /\ [][NextApi]_vars

\* ------------------------------------------------ progress of an n-scene job
\* The pipeline of one job of n scenes, for any n up to MaxTrackedScenes, as
\* the handlers advance it when every provider call succeeds in scene order;
\* a failure of the job is possible at every step after the start.
NewJob(n) ==
  [status |-> "pending",
   scenes |-> [i \in 1..n |->
                [sceneId |-> i, status |-> "pending",
                 startImageUrl |-> 0, endImageUrl |-> 0,
                 videoRequestId |-> 0, videoUrl |-> 0, error |-> ""]],
   finalVideoUrl |-> 0, progress |-> 0, error |-> ""]

\* POST /initialize with n scenes
TrackInitialize(n) ==
  /\ tracked = NoState
  /\ tracked' = NewJob(n)
  /\ UNCHANGED <<jobVars, apiVars, dirVars, authVars>>

\* scenes whose images are not both generated yet
ImagePending(st) ==
  {i \in 1..Len(st.scenes) : st.scenes[i].endImageUrl = 0}

\* generateImages: the next generateImage call returns a URL; after the last
\* one startVideoGeneration submits every scene and updates the progress
TrackImage ==
  /\ tracked.status \in {"pending", "generating_images"}
  /\ LET i == Min(ImagePending(tracked))
         field == IF tracked.scenes[i].startImageUrl = 0
                  THEN "startImageUrl" ELSE "endImageUrl"
         st == SetScene([tracked EXCEPT !.status = "generating_images"],
                        i, field, i)
     IN tracked' = updateProgress(
                     IF ImagePending(st) = {}
                     THEN [st EXCEPT !.status = "generating_videos"]
                     ELSE st)
  /\ UNCHANGED <<jobVars, apiVars, dirVars, authVars>>

\* scenes whose video is not fetched yet
VideoPending(st) ==
  {i \in 1..Len(st.scenes) : st.scenes[i].videoUrl = 0}

\* alarm: getVideoResult returns the URL of the next scene; updateProgress;
\* when all scenes are complete the job goes through videos_complete to
\* compiling
TrackVideo ==
  /\ tracked.status = "generating_videos"
  /\ LET i == Min(VideoPending(tracked))
         st == updateProgress(
                 SetScene(SetScene(tracked, i, "videoUrl", i),
                          i, "status", "complete"))
     IN tracked' = IF VideoPending(st) = {}
                   THEN [st EXCEPT !.status = "compiling"]
                   ELSE st
  /\ UNCHANGED <<jobVars, apiVars, dirVars, authVars>>

\* pollRenderCompletion: the render succeeded
TrackRender ==
  /\ tracked.status = "compiling"
  /\ tracked' = [tracked EXCEPT !.finalVideoUrl = 1, !.status = "complete",
                                !.progress = 100]
  /\ UNCHANGED <<jobVars, apiVars, dirVars, authVars>>

\* a provider call throws: the catch blocks set failed and the message
TrackFail ==
  /\ tracked.status \in {"generating_images", "generating_videos", "compiling"}
  /\ tracked' = Fail(tracked, "provider error")
  /\ UNCHANGED <<jobVars, apiVars, dirVars, authVars>>

NextProgress ==
  \/ \E n \in 1..MaxTrackedScenes : TrackInitialize(n)
  \/ TrackImage
  \/ TrackVideo
  \/ TrackRender
  \/ TrackFail

SpecProgress == Init /\ [][NextProgress]_vars

\* ------------------------------------------------------------ AI director
\* Texts are sequences of characters, "w" a word character and " " a
\* whitespace character; the empty text and a missing text are both <<>>.
\* Durations are counted in hundredths of a second, the target in seconds.
\* A missing shot id is 0 and a missing transitionOut is "".
IsSpace(c) == c = " "

RECURSIVE trimStart(_)
trimStart(s) ==
  IF s # <<>> /\ IsSpace(Head(s)) THEN trimStart(Tail(s)) ELSE s

RECURSIVE trimEnd(_)
trimEnd(s) ==
  IF s # <<>> /\ IsSpace(s[Len(s)])
  THEN trimEnd(SubSeq(s, 1, Len(s) - 1))
  ELSE s

\* a trim that drops at most one whitespace character at each end
trimOneEach(s) ==
  LET t == IF s # <<>> /\ IsSpace(Head(s)) THEN Tail(s) ELSE s
  IN IF t # <<>> /\ IsSpace(t[Len(t)]) THEN SubSeq(t, 1, Len(t) - 1) ELSE t

\* String.prototype.trim
trim(s) == trimEnd(trimStart(s))

\* s.split(/\s+/).length: one more than the number of whitespace runs
SplitLength(s) ==
  1 + Cardinality({i \in 1..Len(s) :
                     IsSpace(s[i]) /\ (i = 1 \/ ~IsSpace(s[i - 1]))})

\* Math.round(d * 10) / 10 for a duration d >= 0
RoundTenth(d) == ((d + 5) \div 10) * 10

validCameraMoves ==
  {"static", "push_in", "pull_out", "pan_left", "pan_right", "tilt_up",
   "tilt_down", "crane_up", "crane_down", "dolly_left", "dolly_right"}

validTransitions ==
  {"cut", "crossfade", "fade_black", "fade_white", "wipe_left", "wipe_right"}

ValidationError(field, sceneId, shotId) ==
  [field |-> field, sceneId |-> sceneId, shotId |-> shotId]

\* the checks of the shot at index j - 1, in the order of the code
ShotError(scene, shot, j) ==
  IF shot.id # j THEN ValidationError("id", scene.id, shot.id)
  ELSE IF shot.duration < 500 \/ shot.duration > 1000
  THEN ValidationError("duration", scene.id, shot.id)
  ELSE IF shot.startPrompt = <<>>
  THEN ValidationError("startPrompt", scene.id, shot.id)
  ELSE IF shot.endPrompt = <<>>
  THEN ValidationError("endPrompt", scene.id, shot.id)
  ELSE IF shot.motionPrompt = <<>>
  THEN ValidationError("motionPrompt", scene.id, shot.id)
  ELSE IF SplitLength(shot.startPrompt) < 20
  THEN ValidationError("startPrompt", scene.id, shot.id)
  ELSE IF SplitLength(shot.endPrompt) < 20
  THEN ValidationError("endPrompt", scene.id, shot.id)
  ELSE IF shot.cameraMove \notin validCameraMoves
  THEN ValidationError("cameraMove", scene.id, shot.id)
  ELSE IF shot.lighting = <<>>
  THEN ValidationError("lighting", scene.id, shot.id)
  ELSE IF shot.transitionOut # "" /\ shot.transitionOut \notin validTransitions
  THEN ValidationError("transitionOut", scene.id, shot.id)
  ELSE NoError

\* the loop over the shots of a scene, from index j - 1
RECURSIVE ShotsError(_, _)
ShotsError(scene, j) ==
  IF j > Len(scene.shots) THEN NoError
  ELSE LET e == ShotError(scene, scene.shots[j], j)
       IN IF e # NoError THEN e ELSE ShotsError(scene, j + 1)

\* the checks of the scene at index i - 1 (no maxShotsPerScene constraint)
SceneError(scene, i) ==
  IF scene.id # i THEN ValidationError("id", scene.id, 0)
  ELSE IF scene.name = <<>> THEN ValidationError("name", scene.id, 0)
  ELSE IF scene.description = <<>>
  THEN ValidationError("description", scene.id, 0)
  ELSE IF scene.mood = <<>> THEN ValidationError("mood", scene.id, 0)
  ELSE IF scene.shots = <<>> THEN ValidationError("shots", scene.id, 0)
  ELSE ShotsError(scene, 1)

\* the loop over the scenes, from index i - 1
RECURSIVE ScenesError(_, _)
ScenesError(scenes, i) ==
  IF i > Len(scenes) THEN NoError
  ELSE LET e == SceneError(scenes[i], i)
       IN IF e # NoError THEN e ELSE ScenesError(scenes, i + 1)

RECURSIVE SumShots(_)
SumShots(shots) ==
  IF shots = <<>> THEN 0 ELSE Head(shots).duration + SumShots(Tail(shots))

\* the sum of the durations of all shots
RECURSIVE SumDurations(_)
SumDurations(scenes) ==
  IF scenes = <<>> THEN 0
  ELSE SumShots(Head(scenes).shots) + SumDurations(Tail(scenes))

\* validateDirection(direction, input): the error thrown, or the direction
\* returned. input.targetDuration is in hundredths of a second and a multiple
\* of 10, so that targetDuration * 0.1 is exact; input.maxScenes = 0 stands
\* for an undefined maxScenes.
validateDirection(direction, input) ==
  LET rejected(e) == [error |-> e, direction |-> NoDirection]
      e == ScenesError(direction.scenes, 1)
      totalCalculatedDuration == SumDurations(direction.scenes)
      tolerance == input.targetDuration \div 10
      minDuration == input.targetDuration - tolerance
      maxDuration == input.targetDuration + tolerance
  IN
  IF direction.title = <<>> THEN rejected(ValidationError("title", 0, 0))
  ELSE IF direction.narrative = <<>>
  THEN rejected(ValidationError("narrative", 0, 0))
  ELSE IF direction.totalDuration <= 0
  THEN rejected(ValidationError("totalDuration", 0, 0))
  ELSE IF direction.scenes = <<>>
  THEN rejected(ValidationError("scenes", 0, 0))
  ELSE IF input.maxScenes # 0 /\ Len(direction.scenes) > input.maxScenes
  THEN rejected(ValidationError("scenes", 0, 0))
  ELSE IF e # NoError THEN rejected(e)
  ELSE IF totalCalculatedDuration < minDuration
          \/ totalCalculatedDuration > maxDuration
  THEN rejected(ValidationError("totalDuration", 0, 0))
  ELSE [error |-> NoError,
        direction |-> [title |-> direction.title,
                       narrative |-> direction.narrative,
                       totalDuration |-> totalCalculatedDuration,
                       scenes |-> direction.scenes]]

normalizeShot(shot, shotIndex) ==
  [shot EXCEPT !.id = shotIndex + 1,
               !.duration = RoundTenth(shot.duration),
               !.startPrompt = trim(shot.startPrompt),
               !.endPrompt = trim(shot.endPrompt),
               !.motionPrompt = trim(shot.motionPrompt),
               !.lighting = trim(shot.lighting),
               !.colorPalette = trim(shot.colorPalette),
               !.transitionOut = IF shot.transitionOut # ""
                                 THEN shot.transitionOut ELSE "cut"]

normalizeScene(scene, sceneIndex) ==
  [scene EXCEPT !.id = sceneIndex + 1,
                !.name = trim(scene.name),
                !.description = trim(scene.description),
                !.mood = trim(scene.mood),
                !.shots = [j \in 1..Len(scene.shots) |->
                             normalizeShot(scene.shots[j], j - 1)]]

normalizeDirection(direction) ==
  LET normalizedScenes ==
        [i \in 1..Len(direction.scenes) |->
           normalizeScene(direction.scenes[i], i - 1)]
  IN [direction EXCEPT
        !.title = trim(direction.title),
        !.narrative = trim(direction.narrative),
        !.totalDuration = RoundTenth(SumDurations(normalizedScenes)),
        !.scenes = normalizedScenes]

\* the location suffix ` (Scene s, Shot j)` of the Error direct() throws
DirectLocation(e) ==
  [scene |-> IF e.sceneId # 0 THEN e.sceneId ELSE 0,
   shot |-> IF e.shotId # 0 THEN e.shotId ELSE 0]

\* --- the LLM responses considered: directions of n scenes of m shots that
\* meet every requirement, but for one shot (or its scene) that varies
RECURSIVE Words(_)
Words(n) ==
  IF n = 0 THEN <<>>
  ELSE IF n = 1 THEN <<"w">>
  ELSE Words(n - 1) \o <<" ", "w">>

GoodShot(j, d) ==
  [id |-> j, duration |-> d,
   startPrompt |-> Words(20), endPrompt |-> Words(20),
   motionPrompt |-> Words(20), cameraMove |-> "push_in",
   lighting |-> Words(2), transitionOut |-> "crossfade",
   colorPalette |-> Words(1)]

ShotVariants ==
  {"good", "longer", "too_short", "too_long", "brief_start", "brief_motion",
   "padded_start", "spaced_start", "bad_camera", "no_transition",
   "bad_transition", "id_off", "no_id", "scene_id_off"}

Vary(shot, v) ==
  CASE v = "longer" -> [shot EXCEPT !.duration = 560]
    [] v = "too_short" -> [shot EXCEPT !.duration = 499]
    [] v = "too_long" -> [shot EXCEPT !.duration = 1001]
    [] v = "brief_start" -> [shot EXCEPT !.startPrompt = Words(19)]
    [] v = "brief_motion" -> [shot EXCEPT !.motionPrompt = Words(3)]
    [] v = "padded_start" ->
         [shot EXCEPT !.startPrompt = <<" ", " ">> \o Words(20) \o <<" ">>]
    [] v = "spaced_start" ->
         [shot EXCEPT !.startPrompt = <<" ">> \o Words(18) \o <<" ">>]
    [] v = "bad_camera" -> [shot EXCEPT !.cameraMove = "zoom_through"]
    [] v = "no_transition" -> [shot EXCEPT !.transitionOut = ""]
    [] v = "bad_transition" -> [shot EXCEPT !.transitionOut = "swirl"]
    [] v = "id_off" -> [shot EXCEPT !.id = shot.id + 1]
    [] v = "no_id" -> [shot EXCEPT !.id = 0]
    [] OTHER -> shot

BaseDurations == {546, 1000}
Targets == {10, 20}

Direction(n, m, d, i, j, v, T) ==
  [scenes |-> [a \in 1..n |->
     [id |-> IF v = "scene_id_off" /\ a = i THEN a + 1 ELSE a,
      shots |-> [b \in 1..m |->
                  IF a = i /\ b = j THEN Vary(GoodShot(b, d), v)
                  ELSE GoodShot(b, d)],
      name |-> Words(1) \o <<" ">>,
      description |-> Words(2),
      mood |-> Words(1)]],
   title |-> <<" ">> \o Words(2),
   narrative |-> Words(3),
   totalDuration |-> T * 100]

RawDirections(T) ==
  {Direction(n, m, d, i, j, v, T) :
     n \in 1..MaxPlanScenes, m \in 1..MaxSceneShots, d \in BaseDurations,
     i \in 1..MaxPlanScenes, j \in 1..MaxSceneShots, v \in ShotVariants}

\* --- direct(): this.llm.json returns the raw direction
LlmReturns(r, T) ==
  /\ dpc = "llm"
  /\ raw' = r
  /\ target' = T
  /\ dpc' = "raw"
  /\ UNCHANGED <<plan, err, thrown>>
  /\ UNCHANGED <<jobVars, apiVars, tracked, authVars>>

\* parseDirection: validateDirection returns or throws
Validate ==
  /\ dpc = "raw"
  /\ LET v == validateDirection(raw, [targetDuration |-> target * 100,
                                        maxScenes |-> 0]) IN
     IF v.error = NoError
     THEN /\ plan' = v.direction
          /\ dpc' = "validated"
          /\ UNCHANGED err
     ELSE /\ err' = v.error
          /\ dpc' = "rejected"
          /\ UNCHANGED plan
  /\ UNCHANGED <<raw, target, thrown>>
  /\ UNCHANGED <<jobVars, apiVars, tracked, authVars>>

\* parseDirection: normalizeDirection(validated); direct() returns it
Normalize ==
  /\ dpc = "validated"
  /\ plan' = normalizeDirection(plan)
  /\ dpc' = "normalized"
  /\ UNCHANGED <<raw, target, err, thrown>>
  /\ UNCHANGED <<jobVars, apiVars, tracked, authVars>>

\* normalizeDirection applied to a direction that is already normalized
Renormalize ==
  /\ dpc = "normalized"
  /\ plan' = normalizeDirection(plan)
  /\ dpc' = "renormalized"
  /\ UNCHANGED <<raw, target, err, thrown>>
  /\ UNCHANGED <<jobVars, apiVars, tracked, authVars>>

\* direct(): the catch block wraps the ValidationError in a new Error
DirectCatch ==
  /\ dpc = "rejected"
  /\ thrown' = DirectLocation(err)
  /\ dpc' = "thrown"
  /\ UNCHANGED <<raw, target, plan, err>>
  /\ UNCHANGED <<jobVars, apiVars, tracked, authVars>>

NextDirector ==
  \/ \E T \in Targets : \E r \in RawDirections(T) : LlmReturns(r, T)
  \/ Validate
  \/ Normalize
  \/ Renormalize
  \/ DirectCatch

SpecDirector == Init /\ [][NextDirector]_vars

\* the responses to a refinement: the first shot re-paced or left alone
RefinedDirections(T) ==
  {Direction(n, m, d, 1, 1, v, T) :
     n \in 1..MaxPlanScenes, m \in 1..MaxSceneShots, d \in BaseDurations,
     v \in {"good", "longer", "too_long"}}

\* --- refine(direction, feedback): this.llm.json returns the raw direction
RefineLlmReturns(r, T) ==
  /\ dpc \in {"normalized", "refined"}
  /\ target = T
  /\ raw' = r
  /\ dpc' = "refine_raw"
  /\ UNCHANGED <<target, plan, err, thrown>>
  /\ UNCHANGED <<jobVars, apiVars, tracked, authVars>>

\* refine(): parseDirection against the totalDuration of the plan being
\* refined, with maxScenes = direction.scenes.length + 2
RefineParse ==
  /\ dpc = "refine_raw"
  /\ LET v == validateDirection(raw, [targetDuration |-> plan.totalDuration,
                                        maxScenes |-> Len(plan.scenes) + 2]) IN
     IF v.error = NoError
     THEN /\ plan' = normalizeDirection(v.direction)
          /\ dpc' = "refined"
          /\ UNCHANGED err
     ELSE /\ err' = v.error
          /\ dpc' = "refine_rejected"
          /\ UNCHANGED plan
  /\ UNCHANGED <<raw, target, thrown>>
  /\ UNCHANGED <<jobVars, apiVars, tracked, authVars>>

\* refine(): the catch block wraps the ValidationError without a location
RefineCatch ==
  /\ dpc = "refine_rejected"
  /\ thrown' = NoLocation
  /\ dpc' = "refine_thrown"
  /\ UNCHANGED <<raw, target, plan, err>>
  /\ UNCHANGED <<jobVars, apiVars, tracked, authVars>>

NextRefine ==
  \/ NextDirector
  \/ \E T \in Targets : \E r \in RefinedDirections(T) : RefineLlmReturns(r, T)
  \/ RefineParse
  \/ RefineCatch

SpecRefine == Init /\ [][NextRefine]_vars

\* ------------------------------------------------------------- auth routes
\* hashRefreshToken: the SHA-256 digest of the token, taken as injective
hashRefreshToken(t) == <<"sha256", t>>

\* getSessionByTokenHash: the row with this hash, or null
getSessionByTokenHash(tokenHash) ==
  IF tokenHash \in sessions THEN tokenHash ELSE NoSession

AuthRespond(op, t, code, new) ==
  authResp' = [op |-> op, token |-> t, code |-> code, newToken |-> new]

\* POST /api/auth/login (or signup): generateRefreshToken and createSession
handleLogin ==
  /\ nextToken < MaxTokens
  /\ nextToken' = nextToken + 1
  /\ sessions' = sessions \cup {hashRefreshToken(nextToken + 1)}
  /\ AuthRespond("login", 0, 200, nextToken + 1)
  /\ UNCHANGED <<authReqs, refreshed, revoked>>
  /\ UNCHANGED <<jobVars, apiVars, tracked, dirVars>>

\* POST /api/auth/refresh presenting token t: the session lookup. Sessions
\* are followed within their lifetime (isSessionValid is true).
RefreshLookup(r, t) ==
  /\ authReqs[r].pc = "idle"
  /\ t <= nextToken
  /\ LET session == getSessionByTokenHash(hashRefreshToken(t)) IN
     IF session = NoSession
     THEN /\ AuthRespond("refresh", t, 401, 0)
          /\ UNCHANGED authReqs
     ELSE /\ authReqs' = [authReqs EXCEPT ![r] =
                 [pc |-> "refresh_found", token |-> t, session |-> session]]
          /\ UNCHANGED authResp
  /\ UNCHANGED <<sessions, nextToken, refreshed, revoked>>
  /\ UNCHANGED <<jobVars, apiVars, tracked, dirVars>>

\* handleRefresh: deleteSession(session.id)
RefreshDelete(r) ==
  /\ authReqs[r].pc = "refresh_found"
  /\ sessions' = sessions \ {authReqs[r].session}
  /\ authReqs' = [authReqs EXCEPT ![r].pc = "refresh_deleted"]
  /\ UNCHANGED <<nextToken, authResp, refreshed, revoked>>
  /\ UNCHANGED <<jobVars, apiVars, tracked, dirVars>>

\* handleRefresh: generateRefreshToken, createSession and the 200
RefreshCreate(r) ==
  /\ authReqs[r].pc = "refresh_deleted"
  /\ nextToken < MaxTokens
  /\ nextToken' = nextToken + 1
  /\ sessions' = sessions \cup {hashRefreshToken(nextToken + 1)}
  /\ AuthRespond("refresh", authReqs[r].token, 200, nextToken + 1)
  /\ refreshed' = [refreshed EXCEPT ![authReqs[r].token] = @ + 1]
  /\ revoked' = revoked \cup {authReqs[r].token}
  /\ authReqs' = [authReqs EXCEPT ![r] = IdleAuthReq]
  /\ UNCHANGED <<jobVars, apiVars, tracked, dirVars>>

\* POST /api/auth/logout presenting token t: the session lookup
LogoutLookup(r, t) ==
  /\ authReqs[r].pc = "idle"
  /\ t <= nextToken
  /\ LET session == getSessionByTokenHash(hashRefreshToken(t)) IN
     IF session = NoSession
     THEN /\ AuthRespond("logout", t, 200, 0)
          /\ revoked' = revoked \cup {t}
          /\ UNCHANGED authReqs
     ELSE /\ authReqs' = [authReqs EXCEPT ![r] =
                 [pc |-> "logout_found", token |-> t, session |-> session]]
          /\ UNCHANGED <<authResp, revoked>>
  /\ UNCHANGED <<sessions, nextToken, refreshed>>
  /\ UNCHANGED <<jobVars, apiVars, tracked, dirVars>>

\* handleLogout: deleteSession(session.id) and the 200
LogoutDelete(r) ==
  /\ authReqs[r].pc = "logout_found"
  /\ sessions' = sessions \ {authReqs[r].session}
  /\ AuthRespond("logout", authReqs[r].token, 200, 0)
  /\ revoked' = revoked \cup {authReqs[r].token}
  /\ authReqs' = [authReqs EXCEPT ![r] = IdleAuthReq]
  /\ UNCHANGED <<nextToken, refreshed>>
  /\ UNCHANGED <<jobVars, apiVars, tracked, dirVars>>

NextAuth ==
  \/ handleLogin
  \/ \E r \in AuthReqIds, t \in Tokens : RefreshLookup(r, t)
  \/ \E r \in AuthReqIds : RefreshDelete(r)
  \/ \E r \in AuthReqIds : RefreshCreate(r)
  \/ \E r \in AuthReqIds, t \in Tokens : LogoutLookup(r, t)
  \/ \E r \in AuthReqIds : LogoutDelete(r)

SpecAuth == Init /\ [][NextAuth]_vars

\* ================================================================== claims
Terminal == {"complete", "failed"}

Rank(status) ==
  CASE status = "none" -> 0
    [] status = "pending" -> 1
    [] status = "generating_images" -> 2
    [] status = "images_complete" -> 3
    [] status = "generating_videos" -> 4
    [] status = "videos_complete" -> 5
    [] status = "compiling" -> 6
    [] OTHER -> 7

\* a read that returns `after` later than a read that returned `before`
\* shows a regression
Regress(before, after) ==
  \/ Rank(after) < Rank(before)
  \/ before \in Terminal /\ after # before

CallPcs ==
  {"img_start", "img_end", "vid_submit", "poll_status", "poll_result",
   "compile_submit", "render_poll"}

\* execution e issues an external provider call in this step
IssuesCall(e) == execs'[e] # execs[e] /\ execs'[e].pc \in CallPcs

\* C1: the status returned by state reads never regresses in the order
\* pending, generating_images, images_complete, generating_videos,
\* videos_complete, compiling, complete (failed from any non-terminal status).
\* A read is possible in every state and returns loadState.status, so the
\* claim holds iff no step lowers that status.
C1_MonotonicPhase ==
  [][~Regress(loadState.status, loadState'.status)]_vars

\* C2: once the job is complete or failed no operation changes its status,
\* progress, scenes, finalVideoUrl or error, issues a provider call or arms
\* a timer.
C2_TerminalReadOnly ==
  [][stored.status \in Terminal =>
       /\ stored' = stored
       /\ loadState' = loadState
       /\ \A e \in ExecIds : ~IssuesCall(e)
       /\ alarmArmed' => alarmArmed]_vars

\* C4: for a job started once, no video submit is issued for a scene that
\* already has a videoRequestId and no compile submit for a job that already
\* has a render id, however often the wake-up is delivered.
C4_NoResubmit ==
  [][starts' = 1 => \A e \in ExecIds :
       /\ (IssuesCall(e) /\ execs'[e].pc = "vid_submit")
            => loadState.scenes[execs'[e].idx].videoRequestId = 0
       /\ (IssuesCall(e) /\ execs'[e].pc = "compile_submit")
            => ~renderId]_vars

\* C5: the alarm that finds the poll ceiling exceeded (tick 41) makes the job
\* failed with the message `Timeout in GeneratingVideos`, issues no provider
\* call and arms no timer.
C5_PollTimeout ==
  [][(pollAttempts' = pollAttempts + 1 /\ pollAttempts' > MAX_POLL_ATTEMPTS)
       => /\ stored'.status = "failed"
          /\ stored'.error = "Timeout in GeneratingVideos"
          /\ ~alarmArmed'
          /\ \A e \in ExecIds : ~IssuesCall(e)]_vars

\* C6: the poll tick counter is durable: discarding the instance of a job
\* that is polling its videos never resets the count.
C6_CounterDurable ==
  [][(stored.status = "generating_videos" /\ mem # NoState /\ mem' = NoState)
       => pollAttempts' = pollAttempts]_vars

AllScenesTerminal(st) ==
  \A i \in 1..Len(st.scenes) : st.scenes[i].status \in {"complete", "failed"}

\* C7: when the video phase ends with every scene terminal, the job fails
\* only if no scene is complete (one failed scene among complete ones leaves
\* the job not failed).
C7_PartialVideoFailure ==
  [][(stored.status = "generating_videos" /\ stored'.status = "failed"
        /\ AllScenesTerminal(stored'))
       => \A i \in 1..Len(stored'.scenes) :
            stored'.scenes[i].status # "complete"]_vars

\* C8: an image error fails the job only if every scene has failed; otherwise
\* only the scene of the failing call is failed and the job goes on.
C8_ImageFailureContained ==
  [][(stored.status = "generating_images" /\ stored'.status = "failed")
       => \A i \in 1..Len(stored'.scenes) :
            stored'.scenes[i].status = "failed"]_vars

\* C9: a retryable image error (HTTP 503) fails the job only after the call
\* was retried 5 times (the per-call retry budget).
C9_TransientRetried ==
  [][\A e \in ExecIds :
       (/\ execs[e].pc \in {"img_start", "img_end"}
        /\ execs'[e] # execs[e]
        /\ stored'.status = "failed"
        /\ stored'.error = FluxError("transient"))
       => execs[e].attempts >= 5]_vars

\* C10: with compile provider "none" the job never enters compiling and no
\* compile submit or render poll call is made.
C10_CompileNoneSkipped ==
  compileProvider = "none" =>
    /\ stored.status # "compiling"
    /\ \A e \in ExecIds : execs[e].pc \notin {"compile_submit", "render_poll"}

\* C11: in every committed job record the error message is set iff the status
\* is failed: every transition into failed records a message and no record
\* with another status carries one.
C11_ErrorIffFailed ==
  stored # NoState => (stored.error # "" <=> stored.status = "failed")

\* C12: progress is an integer in 0..100 in every job state, and the progress
\* of successive snapshots of the job never decreases.
ProgressInRange ==
  /\ stored.progress \in 0..100
  /\ mem.progress \in 0..100

ProgressNonDecreasing == loadState'.progress >= loadState.progress

C12_ProgressMonotonic == []ProgressInRange /\ [][ProgressNonDecreasing]_vars

\* C13: for every number of scenes, progress = 100 iff the status is
\* complete: completion forces 100 and no other state shows 100.
C13_HundredIffComplete ==
  tracked # NoState => (tracked.progress = 100 <=> tracked.status = "complete")

\* C14: every started job eventually reaches complete or failed, given that
\* provider calls return and armed alarms fire, also when the instance is
\* restarted in a non-terminal phase.
C14_EventuallyTerminal ==
  (stored.status \in JobStatus \ {"pending"}) ~> (stored.status \in Terminal)

\* C19: every snapshot returned by a state read equals a committed job
\* record, also while a handler is suspended at an external call. A read
\* returns loadState; this.state is only ever assigned together with or ahead
\* of the stored row, so a snapshot that differs from the stored row was never
\* committed. The progress of a snapshot matches the scenes it comes with.
C19_AtomicSnapshots ==
  loadState # NoState =>
    /\ loadState = stored
    /\ loadState.progress = updateProgress(loadState).progress

\* C20: the video submit call is issued at most once per scene over the whole
\* life of the job: never for a scene that already has a videoRequestId,
\* whatever sequence of starts, alarms and restarts occurs.
C20_SubmitOnce ==
  [][\A e \in ExecIds :
       (IssuesCall(e) /\ execs'[e].pc = "vid_submit")
         => loadState.scenes[execs'[e].idx].videoRequestId = 0]_vars

\* C21: single writer: at any instant at most one pipeline execution
\* (startGeneration, an alarm handler with its compile polling) is in progress
\* on the job; a start or an alarm that arrives while another execution is
\* suspended at an external call does not run interleaved with it.
C21_SingleWriter ==
  Cardinality({e \in ExecIds : execs[e].kind # "idle"}) <= 1

\* the step leaves every scene but scene i as it was
OtherScenesSame(i) ==
  \A k \in 1..Len(mem.scenes) : k # i => mem'.scenes[k] = mem.scenes[k]

\* C22: on a poll tick a COMPLETED scene gets its videoUrl and becomes
\* complete, a FAILED scene becomes failed with a message, a scene still in
\* progress is left unchanged, and scenes not in polling_video are neither
\* polled nor changed.
C22_PollTickEffect ==
  [][\A e \in ExecIds :
       LET i == execs[e].idx IN
       /\ PollResultReturns(e, "ok") =>
            /\ mem'.scenes[i].videoUrl # 0
            /\ mem'.scenes[i].status = "complete"
            /\ OtherScenesSame(i)
       /\ PollStatusReturns(e, "FAILED") =>
            /\ mem'.scenes[i].status = "failed"
            /\ mem'.scenes[i].error # ""
            /\ OtherScenesSame(i)
       /\ (PollStatusReturns(e, "IN_PROGRESS")
             \/ PollStatusReturns(e, "COMPLETED")) =>
            mem'.scenes = mem.scenes
       /\ (IssuesCall(e) /\ execs'[e].pc = "poll_status") =>
            mem'.scenes[execs'[e].idx].status = "polling_video"]_vars

\* one tick has recorded a failed scene and a complete scene
C22_Witness ==
  /\ mem # NoState
  /\ \E i, k \in 1..Len(mem.scenes) :
       /\ mem.scenes[i].status = "failed"
       /\ mem.scenes[i].error = "Video generation failed"
       /\ mem.scenes[k].status = "complete"
       /\ mem.scenes[k].videoUrl # 0

\* C23: an error thrown by a provider call inside a poll tick is swallowed:
\* the job is still generating_videos, no scene changes because of it, and
\* the alarm is armed for another tick.
C23_PollErrorSwallowed ==
  [][\A e \in ExecIds :
       (PollStatusReturns(e, "error") \/ PollResultReturns(e, "error")) =>
         /\ stored' = stored
         /\ stored.status = "generating_videos"
         /\ mem'.status = "generating_videos"
         /\ mem'.scenes = mem.scenes
         /\ alarmArmed']_vars

\* a tick ended by an error: no handler is running, the alarm is armed and
\* this.state holds scene results of the broken tick that were never saved
C23_Witness ==
  /\ alarmArmed
  /\ \A e \in ExecIds : execs[e].kind = "idle"
  /\ mem # NoState
  /\ mem.status = "generating_videos"
  /\ mem.scenes # stored.scenes

\* C24: the clip URLs handed to the compile submit call are in declared scene
\* order (scene ids are the positions of the scenes in the project) whatever
\* the order in which the videos completed, and they are exactly the video
\* URLs of the scenes that completed (the URL of scene i is modelled as i).
C24_CompileUrlsInOrder ==
  [][\A e \in ExecIds :
       (IssuesCall(e) /\ execs'[e].pc = "compile_submit") =>
          LET urls == VideoUrls(mem'.scenes) IN
          /\ \A a, b \in 1..Len(urls) : a < b => urls[a] < urls[b]
          /\ {urls[a] : a \in 1..Len(urls)} =
               {mem'.scenes[i].sceneId : i \in
                  {k \in 1..Len(mem'.scenes) :
                     mem'.scenes[k].status = "complete"}}]_vars

\* C25: compile polling. A render reported succeeded with a URL records
\* finalVideoUrl and completes the job; a render reported failed fails the
\* job; any other report polls again, up to the 60th report, which fails the
\* job; and the job never receives more than 60 render reports.
C25_RenderPollCeiling ==
  /\ [](renderPolls <= maxAttempts)
  /\ [][\A e \in ExecIds :
          /\ RenderPollReturns(e, "succeeded") =>
                mem'.status = "complete" /\ mem'.finalVideoUrl # 0
          /\ RenderPollReturns(e, "failed") => mem'.status = "failed"
          /\ RenderPollReturns(e, "rendering") =>
                IF execs[e].attempts + 1 < maxAttempts
                THEN execs'[e].pc = "render_poll" /\ mem' = mem
                ELSE mem'.status = "failed"]_vars

\* C26: in every committed job state that is not complete, progress is
\* round(100 * completedUnits / total), with one unit per start image, end
\* image and video URL present and total = 3 * N + 1.
C26_CommittedProgress ==
  (stored # NoState /\ stored.status # "complete") =>
     stored.progress =
       MathRound(CompletedSteps(stored.scenes, Len(stored.scenes)) * 100,
                 3 * Len(stored.scenes) + 1)

\* C28: whenever the job's status is complete, finalVideoUrl is set and every
\* scene has status complete with its start image, end image and video URL
\* set.
C28_CompleteMeansAllScenes ==
  (loadState # NoState /\ loadState.status = "complete") =>
     /\ loadState.finalVideoUrl # 0
     /\ \A i \in 1..Len(loadState.scenes) :
          /\ loadState.scenes[i].status = "complete"
          /\ loadState.scenes[i].startImageUrl # 0
          /\ loadState.scenes[i].endImageUrl # 0
          /\ loadState.scenes[i].videoUrl # 0

\* ---------------------------------------------------------- director claims
\* the number of whitespace-separated tokens of a text
TokenCount(s) ==
  Cardinality({i \in 1..Len(s) :
                 ~IsSpace(s[i]) /\ (i = 1 \/ IsSpace(s[i - 1]))})

ShotValid(shot, j) ==
  /\ shot.id = j
  /\ shot.cameraMove \in validCameraMoves
  /\ shot.transitionOut # "" => shot.transitionOut \in validTransitions
  /\ shot.duration >= 500 /\ shot.duration <= 1000
  /\ TokenCount(shot.startPrompt) >= 20
  /\ TokenCount(shot.endPrompt) >= 20
  /\ TokenCount(shot.motionPrompt) >= 20

WithinTolerance(total, T) == 90 * T <= total /\ total <= 110 * T

PlanValid(direction, T) ==
  /\ \A i \in 1..Len(direction.scenes) :
       /\ direction.scenes[i].id = i
       /\ \A j \in 1..Len(direction.scenes[i].shots) :
            ShotValid(direction.scenes[i].shots[j], j)
  /\ WithinTolerance(SumDurations(direction.scenes), T)

\* C15: every plan accepted by validateDirection / parseDirection has scene
\* ids 1..N and shot ids 1..M, every cameraMove and present transitionOut in
\* its closed set, every duration in [5, 10], the total within 10% of the
\* target, and at least 20 tokens in each of startPrompt, endPrompt and
\* motionPrompt.
C15_AcceptedPlanValid ==
  dpc \in {"validated", "normalized"} => PlanValid(plan, target)

\* C16: the plan returned by parseDirection has totalDuration equal to the
\* 0.1-rounded sum of its 0.1-rounded shot durations, and that totalDuration
\* is within 10% of the target.
C16_RoundedTotalInTolerance ==
  dpc = "normalized" =>
    /\ plan.totalDuration = RoundTenth(SumDurations(plan.scenes))
    /\ \A i \in 1..Len(plan.scenes) : \A j \in 1..Len(plan.scenes[i].shots) :
         plan.scenes[i].shots[j].duration
           = RoundTenth(plan.scenes[i].shots[j].duration)
    /\ WithinTolerance(plan.totalDuration, target)

\* C17: normalization is idempotent: normalizing a normalized plan changes
\* no field.
C17_NormalizeIdempotent ==
  [][(dpc = "normalized" /\ dpc' = "renormalized") => plan' = plan]_vars

\* a plan was normalized twice, and the first normalization had changed the
\* validated plan (texts trimmed, durations rounded, a transition defaulted)
C17_Witness ==
  /\ dpc = "renormalized"
  /\ plan.scenes # raw.scenes
  /\ plan.title # raw.title

\* the first scene, in order, that validation does not pass, and the first
\* shot of it that validation does not pass (0: the scene itself is at fault)
FirstViolation(direction) ==
  LET bad == {i \in 1..Len(direction.scenes) :
                SceneError(direction.scenes[i], i) # NoError}
      i == Min(bad)
      scene == direction.scenes[i]
      header == [scene EXCEPT !.shots = <<GoodShot(1, 500)>>]
      badShots == {j \in 1..Len(scene.shots) :
                     ShotError(scene, scene.shots[j], j) # NoError}
  IN IF bad = {} THEN NoLocation
     ELSE IF SceneError(header, i) # NoError THEN [scene |-> i, shot |-> 0]
     ELSE [scene |-> i, shot |-> Min(badShots)]

\* C18: when the first violation lies in shot j of scene i (1-based
\* positions), the error that reaches the caller of direct() names scene i
\* and shot j.
C18_ErrorLocation ==
  (dpc = "thrown" /\ FirstViolation(raw).shot # 0)
    => thrown = FirstViolation(raw)

\* C27: every plan returned by a refine that follows direct(target T) has a
\* totalDuration within 10% of T, and a refine accepts a response only if
\* the sum of its durations is within 10% of the totalDuration of the plan
\* being refined.
C27_RefineWithinUserTarget ==
  /\ [](dpc = "refined" => WithinTolerance(plan.totalDuration, target))
  /\ [][(dpc = "refine_raw" /\ dpc' = "refined") =>
          /\ 9 * plan.totalDuration <= 10 * SumDurations(raw.scenes)
          /\ 10 * SumDurations(raw.scenes) <= 11 * plan.totalDuration]_vars

\* ------------------------------------------------------------ router claims
\* a request by user u: one of the router's actions for u
RequestBy(u) ==
  \/ CreateProject(u)
  \/ \E p \in Ids : GenerateBegin(u, p)
  \/ GenerateInitialize(u)
  \/ GenerateStart(u)
  \/ \E st \in {"generating_videos", "failed"} : GenerateStarted(u, st)
  \/ GeneratePutJob(u)
  \/ GeneratePutCurrent(u)
  \/ \E j \in Ids : GetJob(u, j)
  \/ \E p \in Ids : GetProjectJob(u, p)

\* no response hands a job's state to a user other than the job's owner, and
\* a GET /api/jobs/:id for another user's job is answered 404
ReadIsolation ==
  /\ (resp.code \in {200, 202} /\ resp.job # 0)
       => jobOwner[resp.job] = resp.user
  /\ (resp.op = "getJob" /\ jobOwner[resp.id] \notin {NoUser, resp.user})
       => resp.code = 404

\* a step that changes a job is not a request by a user other than its owner
WriteIsolation ==
  \A j \in Ids :
    (jobState'[j] # jobState[j] /\ jobOwner[j] # NoUser)
      => \A u \in Users \ {jobOwner[j]} : ~RequestBy(u)

C29_OwnerFindsJob ==
  /\ [](\A j \in Ids :
          jobState[j] \notin {"none", "pending"}
            => kv[JobKey(jobOwner[j], j)] # 0)
  /\ [][\A u \in Users, j \in Ids :
          (GetJob(u, j) /\ jobOwner[j] = u
             /\ jobState[j] \notin {"none", "complete", "failed"})
            => resp'.code = 200]_vars


\* C30: a refresh token is single-use: at most one refresh request presenting
\* a token is answered 200, and a refresh request that presents a token after
\* a refresh or a logout of that token was answered 200 is answered 401.
C30_RefreshSingleUse ==
  /\ [](\A t \in Tokens : refreshed[t] <= 1)
  /\ [][\A r \in AuthReqIds, t \in Tokens :
          (RefreshLookup(r, t) /\ t \in revoked)
            => (authResp'.op = "refresh" /\ authResp'.token = t
                  /\ authResp'.code = 401)]_vars

====
